---- MODULE Spec2Model ----
(***************************************************************************)
(* Model of the IoT ingest API (src/main.py) and of its database helpers   *)
(* (src/db.py).                                                            *)
(*                                                                         *)
(* Spec      the HTTP endpoints, each request handled as one step against  *)
(*           the readings table.                                           *)
(* SpecAuth  the same ingest handlers, exercised with every Authorization  *)
(*           header of up to MaxHeaderLen atoms.                           *)
(* SpecPool  the worker threads of the application taking connections from *)
(*           the pool of db.get_pool().                                    *)
(*                                                                         *)
(* Optional values (Python's None, SQL's NULL) are modelled as sequences:  *)
(* NULL is <<>> and a present value x is <<x>>.                            *)
(* Times are integers (seconds).  Distances are integers: millimetres for  *)
(* haversine_m and the running total, centimetres for the rounded          *)
(* distance_m of the summary (round(total_dist, 2)).                       *)
(***************************************************************************)
EXTENDS Integers, Sequences, FiniteSets, TLC

VARIABLES
    readings,   \* the rows of table readings
    nextId,     \* the next value of the id sequence of the table
    now,        \* the server clock, read by NOW()
    req,        \* the request handled last
    resp,       \* the response to it
    sent,       \* history: the payloads stored so far, with the ids they got
    pc,         \* SpecPool: where each worker thread is
    avail       \* SpecPool: connections the pool can still hand out

vars == <<readings, nextId, now, req, resp, sent, pc, avail>>
dbVars == <<readings, nextId, now, sent>>
poolVars == <<pc, avail>>

----------------------------------------------------------------------------
(* Bounds of the model *)

\* ingests explored after the initial table
MaxIngest == 2
\* largest LIMIT a request asks for
MaxLimit == 3
\* longest Authorization header of SpecAuth, in atoms
MaxHeaderLen == 5
\* worker threads of SpecPool
NumThreads == 6

----------------------------------------------------------------------------
(* Optional values *)

NULL == <<>>
Some(x) == <<x>>
IsNull(o) == o = <<>>
Val(o) == o[1]

----------------------------------------------------------------------------
(* Configuration: src/main.py, CONFIGURACION BASICA *)

SAFE_TOKEN == "XK8q1vR3pN6tY9bM2fH5wJ7cL0dS4gA8zQ1eV6uP9kT3nR5mB8yC2hF7xL0aD4sG"
DEFAULT_DEVICE_ID == "0aef3bcc-b74b-47ce-9514-7eeb87bcb1a9"
\* another device of the table
OTHER_DEVICE == "ipn-zac-sim-01"

----------------------------------------------------------------------------
(* Strings.  A string is a sequence of atoms: SP is one whitespace          *)
(* character, every other atom an indivisible run of non-blank characters. *)

SP == " "
Atoms == {SP, "Bearer", SAFE_TOKEN, "wrong"}

\* every string of at most n atoms
Strings(n) == UNION {[1..k -> Atoms] : k \in 0..n}

\* str.lower() on one atom
LowerAtom(a) ==
    CASE a = "Bearer" -> "bearer"
      [] a \in {"ASC", "Asc"} -> "asc"
      [] OTHER -> a

\* str.lower()
lower(w) == [i \in 1..Len(w) |-> LowerAtom(w[i])]

RECURSIVE SplitFrom(_, _, _)
\* str.split() with no separator: s is what is left to read, cur the word
\* being read, acc the words read; runs of whitespace separate the words and
\* produce no empty word
SplitFrom(s, cur, acc) ==
    IF s = <<>>
    THEN IF cur = <<>> THEN acc ELSE Append(acc, cur)
    ELSE IF Head(s) = SP
         THEN SplitFrom(Tail(s), <<>>, IF cur = <<>> THEN acc ELSE Append(acc, cur))
         ELSE SplitFrom(Tail(s), Append(cur, Head(s)), acc)

split(s) == SplitFrom(s, <<>>, <<>>)

----------------------------------------------------------------------------
(* require_token: the detail of the 401 it raises, or "ok" when it returns *)

\* require_token comparing the scheme with "bearer" without lower()
require_token_case_sensitive(authorization) ==
    IF IsNull(authorization) \/ Val(authorization) = <<>>
    THEN "missing_token"
    ELSE LET parts == split(Val(authorization))
         IN IF Len(parts) # 2 \/ parts[1] # <<"bearer">>
            THEN "invalid_auth_header"
            ELSE IF parts[2] # <<SAFE_TOKEN>>
                 THEN "invalid_token"
                 ELSE "ok"

require_token(authorization) ==
    IF IsNull(authorization) \/ Val(authorization) = <<>>
    THEN "missing_token"
    ELSE LET parts == split(Val(authorization))
         IN IF Len(parts) # 2 \/ lower(parts[1]) # <<"bearer">>
            THEN "invalid_auth_header"
            ELSE IF parts[2] # <<SAFE_TOKEN>>
                 THEN "invalid_token"
                 ELSE "ok"

----------------------------------------------------------------------------
(* Times as ISO-8601 strings *)

\* datetime.isoformat() of an aware datetime: the seconds and the UTC offset
isoformat(t) == [secs |-> t, tz |-> "+00:00"]

\* str.replace("Z", "+00:00")
replaceZ(s) == [s EXCEPT !.tz = IF @ = "Z" THEN "+00:00" ELSE @]

\* datetime.fromisoformat(), in seconds
fromisoformat(s) == s.secs

----------------------------------------------------------------------------
(* haversine_m, in millimetres, on the grid of whole degrees 0..1: the     *)
(* values of the source's formula with R = 6371000.0                       *)

Abs(x) == IF x < 0 THEN -x ELSE x

haversine_m(lat1, lon1, lat2, lon2) ==
    LET dlat == Abs(lat2 - lat1)
        dlon == Abs(lon2 - lon1)
    IN CASE dlat = 0 /\ dlon = 0 -> 0
         [] dlat = 1 /\ dlon = 0 -> 111194927
         [] dlat = 0 /\ dlon = 1 /\ lat1 = 0 -> 111194927
         [] dlat = 0 /\ dlon = 1 /\ lat1 = 1 -> 111177991
         [] dlat = 1 /\ dlon = 1 -> 157249381

\* round(total_dist, 2): millimetres to the nearest centimetre
round2(mm) == (mm + 5) \div 10

----------------------------------------------------------------------------
(* The readings table: readings(id, device_id, ts, lat, lon, alt_m,        *)
(* read_at, payload)                                                       *)

\* rows the table holds before the first request: a reading of the default
\* device with no longitude, and a reading of another device
SeedRows ==
    { [id |-> 1, device_id |-> DEFAULT_DEVICE_ID, ts |-> 1, lat |-> Some(1),
       lon |-> NULL, alt_m |-> NULL, read_at |-> Some(5), payload |-> NULL],
      [id |-> 2, device_id |-> OTHER_DEVICE, ts |-> 1, lat |-> Some(1),
       lon |-> Some(1), alt_m |-> Some(7), read_at |-> NULL, payload |-> NULL] }

\* the id column: each INSERT takes the next value of the table's sequence
\* (the schema is not part of the sources; ids are unique and increasing)
nextval(n) == n + 1

\* the value the id sequence gives the first ingested row
FirstId == Cardinality(SeedRows) + 1

\* SELECT id, device_id, lat, lon, alt_m, read_at, ts
Columns(r) ==
    [id |-> r.id, device_id |-> r.device_id, lat |-> r.lat, lon |-> r.lon,
     alt_m |-> r.alt_m, read_at |-> r.read_at, ts |-> r.ts]

\* ORDER BY ts ASC in place of DESC
RecentBefore_ascending(a, b) == a.ts < b.ts

\* ORDER BY ts DESC
RecentBefore(a, b) == a.ts > b.ts

\* ORDER BY read_at <order_sql> NULLS LAST, ts <order_sql>
TrackBefore(order_sql, a, b) ==
    IF IsNull(a.read_at) # IsNull(b.read_at)
    THEN IsNull(b.read_at)
    ELSE IF ~IsNull(a.read_at) /\ Val(a.read_at) # Val(b.read_at)
         THEN IF order_sql = "ASC" THEN Val(a.read_at) < Val(b.read_at)
                                   ELSE Val(a.read_at) > Val(b.read_at)
         ELSE IF order_sql = "ASC" THEN a.ts < b.ts ELSE a.ts > b.ts

\* whether row a sorts strictly before row b under an ORDER BY clause:
\* "TS_DESC" is recent's, "ASC" and "DESC" are readings_track's
Before(clause, a, b) ==
    IF clause = "TS_DESC" THEN RecentBefore(a, b) ELSE TrackBefore(clause, a, b)

\* the rows of S that no row of S sorts strictly before
Firsts(S, clause) == {m \in S : \A x \in S : ~Before(clause, x, m)}

RECURSIVE OrderBy(_, _)
\* ORDER BY: every sequence of the rows of S that the clause allows (rows
\* with equal keys come in any order)
OrderBy(S, clause) ==
    IF S = {} THEN {<<>>}
    ELSE UNION { {<<m>> \o rest : rest \in OrderBy(S \ {m}, clause)} :
                 m \in Firsts(S, clause) }

\* LIMIT n
Limit(rows, n) == SubSeq(rows, 1, IF n < Len(rows) THEN n ELSE Len(rows))

----------------------------------------------------------------------------
(* src/db.py *)

\* ConnectionPool(min_size=1, max_size=5)
max_size == 5

\* fetchone("SELECT 1 AS ok;")
fetchone_select1 == Some([ok |-> 1])

\* execute(INSERT ... RETURNING id): what it returns once the statement has
\* run; without returning it commits and falls off the end of the function
execute(inserted, returning) ==
    IF returning THEN Some([id |-> inserted.id]) ELSE NULL

\* fetchall of recent's query: the results the database may give
fetchall_recent(device, limit) ==
    { Limit([i \in 1..Len(rows) |-> Columns(rows[i])], limit) :
      rows \in OrderBy({r \in readings : r.device_id = device}, "TS_DESC") }

\* WHERE device_id = %s [AND ts >= %s] [AND ts <= %s]
TrackWhere(r, device, start, end) ==
    /\ r.device_id = device
    /\ IsNull(start) \/ r.ts >= Val(start)
    /\ IsNull(end) \/ r.ts <= Val(end)

\* fetchall of readings_track's query: the results the database may give
fetchall_track(device, start, end, order_sql, limit) ==
    { Limit([i \in 1..Len(rows) |-> Columns(rows[i])], limit) :
      rows \in OrderBy({r \in readings : TrackWhere(r, device, start, end)},
                       order_sql) }

----------------------------------------------------------------------------
(* Requests and responses *)

\* a request: the endpoint and the parameters FastAPI reads for it
Request(ep) ==
    [endpoint |-> ep, authorization |-> NULL, payload |-> NULL,
     device |-> NULL, start |-> NULL, end |-> NULL, order |-> NULL,
     limit |-> NULL]

\* a response: the status, the detail of an error, the JSON body of a 200
Response(status, detail, body) ==
    [status |-> status, detail |-> detail, body |-> body]

\* FastAPI answers 422 before it calls the handler when a parameter does not
\* validate
Unprocessable == Response(422, "validation_error", NULL)

\* an HTTPException(status_code=401, detail=...)
Unauthorized(detail) == Response(401, detail, NULL)

\* an exception no handler catches
InternalServerError == Response(500, "Internal Server Error", NULL)

\* class ReadingIn: lat and lon are required, alt and time optional
ValidReadingIn(p) == ~IsNull(p.lat) /\ ~IsNull(p.lon)

\* Python's "a or b" on optional strings
Or(a, b) == IF IsNull(a) THEN b ELSE a

----------------------------------------------------------------------------
(* GET / and GET /health *)

root ==
    /\ req' = Request("/")
    /\ resp' = Response(200, "", Some([ok |-> TRUE, service |-> "iot-backend",
                                       uptime |-> isoformat(now)]))
    /\ UNCHANGED dbVars

health ==
    LET row == fetchone_select1
    IN /\ req' = Request("/health")
       /\ resp' = Response(200, "",
                    Some([ok |-> TRUE, db |-> ~IsNull(row) /\ Val(row).ok = 1]))
       /\ UNCHANGED dbVars

----------------------------------------------------------------------------
(* POST /ingest and POST /ingest_lite *)

\* the row INSERT INTO readings ... VALUES (%s, NOW(), %s, %s, %s, %s, %s)
\* stores for a payload, with the id of the sequence and NOW() = t
InsertedRow(payload, id, t) ==
    [id |-> id, device_id |-> DEFAULT_DEVICE_ID, ts |-> t,
     lat |-> payload.lat, lon |-> payload.lon, alt_m |-> payload.alt,
     read_at |-> payload.time,
     payload |-> Some([lat |-> payload.lat, lon |-> payload.lon,
                       alt |-> payload.alt,
                       time |-> IF IsNull(payload.time) THEN NULL
                                ELSE Some(isoformat(Val(payload.time)))])]

\* an INSERT that skips a payload the table already holds
Insert_deduplicating(table, inserted) ==
    IF \E x \in table : x.payload = inserted.payload
    THEN table
    ELSE table \cup {inserted}

\* cur.execute(INSERT INTO readings ...) and the commit: the table with the
\* new row
Insert(table, inserted) == table \cup {inserted}

\* return {"inserted_id": row["id"]}: subscripting None raises TypeError
InsertedIdResponse(row) ==
    IF IsNull(row) THEN InternalServerError
    ELSE Response(200, "", Some([inserted_id |-> Val(row).id]))

\* the body shared by ingest and ingest_lite
IngestBody(ep, authorization, payload) ==
    /\ req' = [Request(ep) EXCEPT !.authorization = authorization,
                                  !.payload = Some(payload)]
    /\ \/ /\ ~ValidReadingIn(payload)
          /\ resp' = Unprocessable
          /\ UNCHANGED dbVars
       \/ /\ ValidReadingIn(payload)
          /\ require_token(authorization) # "ok"
          /\ resp' = Unauthorized(require_token(authorization))
          /\ UNCHANGED dbVars
       \/ /\ ValidReadingIn(payload)
          /\ require_token(authorization) = "ok"
          /\ nextId < FirstId + MaxIngest
          /\ \E t \in {now, now + 1} :
                LET inserted == InsertedRow(payload, nextId, t)
                    row == execute(inserted, FALSE)
                IN /\ readings' = Insert(readings, inserted)
                   /\ sent' = sent \cup {[endpoint |-> ep, id |-> nextId,
                                           payload |-> payload]}
                   /\ nextId' = nextval(nextId)
                   /\ now' = t
                   /\ resp' = InsertedIdResponse(row)

ingest_lite(authorization, payload) ==
    IngestBody("/ingest_lite", authorization, payload)

ingest(authorization, payload) ==
    IngestBody("/ingest", authorization, payload)

----------------------------------------------------------------------------
(* GET /readings/recent *)

recent(limit, device) ==
    LET dev == IF IsNull(device) THEN DEFAULT_DEVICE_ID ELSE Val(device)
        lim == IF IsNull(limit) THEN 50 ELSE Val(limit)
    IN /\ req' = [Request("/readings/recent") EXCEPT !.limit = limit,
                                                     !.device = device]
       /\ \E rows \in fetchall_recent(dev, lim) :
             resp' = Response(200, "", Some([items |-> rows]))
       /\ UNCHANGED dbVars

----------------------------------------------------------------------------
(* GET /readings/track *)

\* Query("asc", pattern="^(asc|desc)$")
ValidOrder(order) == order \in {<<"asc">>, <<"desc">>}

\* the largest limit Query(500, ge=1, le=2000) accepts
LimitLe == 2000

\* Query(500, ge=1, le=2000)
ValidTrackLimit(limit) == limit >= 1 /\ limit <= LimitLe

\* order_sql = "ASC" if order.lower() == "asc" else "DESC"
OrderSql(order) == IF lower(order) = <<"asc">> THEN "ASC" ELSE "DESC"

\* a row as a point for the frontend: the times as ISO strings
Point(r) ==
    [id |-> r.id, device_id |-> r.device_id, lat |-> r.lat, lon |-> r.lon,
     alt_m |-> r.alt_m,
     read_at |-> IF IsNull(r.read_at) THEN NULL
                 ELSE Some(isoformat(Val(r.read_at))),
     ts |-> Some(isoformat(r.ts))]

\* the condition under which a pair of points adds to total_dist
HasLatLon(p1, p2) ==
    /\ ~IsNull(p1.lat)
    /\ ~IsNull(p1.lon)
    /\ ~IsNull(p2.lat)
    /\ ~IsNull(p2.lon)

RECURSIVE BridgingLoop(_, _, _, _)
\* a loop that measures from the last point that had lat and lon (prev) and
\* so bridges over points without them
BridgingLoop(points, i, prev, total_dist) ==
    IF i > Len(points) THEN total_dist
    ELSE LET p == points[i]
             ok == ~IsNull(p.lat) /\ ~IsNull(p.lon)
         IN BridgingLoop(points, i + 1, IF ok THEN Some(p) ELSE prev,
                IF ok /\ ~IsNull(prev)
                THEN total_dist + haversine_m(Val(Val(prev).lat), Val(Val(prev).lon),
                                              Val(p.lat), Val(p.lon))
                ELSE total_dist)

DistanceLoop_bridging(points, i, total_dist) ==
    BridgingLoop(points, 1, NULL, total_dist)

RECURSIVE DistanceLoop(_, _, _)
\* for i in range(1, len(points)): total_dist += haversine_m(p1, p2); here i
\* counts from 1, so the loop starts at i = 2 with points[i - 1], points[i]
DistanceLoop(points, i, total_dist) ==
    IF i > Len(points) THEN total_dist
    ELSE LET p1 == points[i - 1]
             p2 == points[i]
         IN DistanceLoop(points, i + 1,
                IF HasLatLon(p1, p2)
                THEN total_dist + haversine_m(Val(p1.lat), Val(p1.lon),
                                              Val(p2.lat), Val(p2.lon))
                ELSE total_dist)

\* the timestamp the summary uses for a point: read_at, else ts
PointTime(p) == Or(p.read_at, p.ts)

\* duration_s: None, or last_time - first_time in seconds
Duration(points) ==
    IF points = <<>> THEN NULL
    ELSE LET first_time == PointTime(points[1])
             last_time == PointTime(points[Len(points)])
         IN IF ~IsNull(first_time) /\ ~IsNull(last_time)
            THEN LET t1 == fromisoformat(replaceZ(Val(first_time)))
                     t2 == fromisoformat(replaceZ(Val(last_time)))
                 IN Some(t2 - t1)
            ELSE NULL

\* the summary of the response
Summary(points) ==
    [count |-> Len(points),
     distance_m |-> round2(DistanceLoop(points, 2, 0)),
     duration_s |-> Duration(points)]

readings_track(device, start, end, order, limit) ==
    LET given == ~IsNull(device) /\ Val(device) # ""
        dev == IF given THEN Val(device) ELSE DEFAULT_DEVICE_ID
    IN /\ req' = [Request("/readings/track") EXCEPT
                    !.device = device, !.start = start, !.end = end,
                    !.order = Some(order), !.limit = Some(limit)]
       /\ \/ /\ ~(ValidOrder(order) /\ ValidTrackLimit(limit))
             /\ resp' = Unprocessable
          \/ /\ ValidOrder(order) /\ ValidTrackLimit(limit)
             /\ \E rows \in fetchall_track(dev, start, end, OrderSql(order), limit) :
                   LET points == [i \in 1..Len(rows) |-> Point(rows[i])]
                   IN resp' = Response(200, "",
                                Some([device |-> dev, points |-> points,
                                      summary |-> Summary(points)]))
       /\ UNCHANGED dbVars

----------------------------------------------------------------------------
(* The inputs explored *)

ReadingIn(lat, lon, alt, time) ==
    [lat |-> lat, lon |-> lon, alt |-> alt, time |-> time]

\* ReadingIn payloads of Spec; the last has no lat and does not validate
Payloads ==
    { ReadingIn(Some(0), Some(0), NULL, NULL),
      ReadingIn(Some(1), Some(1), Some(7), Some(3)),
      ReadingIn(NULL, Some(1), Some(7), NULL) }

\* ReadingIn payloads of Spec for /ingest_lite: one that validates, one that
\* does not
LitePayloads ==
    { ReadingIn(Some(1), Some(0), Some(7), NULL),
      ReadingIn(NULL, Some(1), Some(7), NULL) }

\* the payloads SpecAuth explores: one that validates, one that does not
AuthPayloads ==
    { ReadingIn(Some(0), Some(1), NULL, NULL),
      ReadingIn(NULL, Some(1), NULL, NULL) }

\* Authorization headers of Spec: the right token and a wrong token
Headers ==
    {Some(<<"Bearer", SP, SAFE_TOKEN>>), Some(<<"Bearer", SP, "wrong">>)}

\* Authorization headers of SpecAuth: none, and every string of the atoms
AuthHeaders == {NULL} \cup {Some(h) : h \in Strings(MaxHeaderLen)}

RecentLimits == {NULL} \cup {Some(n) : n \in 0..MaxLimit}

\* recent requests <<limit, device>>: every limit for the default device,
\* and the devices named
RecentRequests ==
    { <<l, NULL>> : l \in RecentLimits }
    \cup { <<Some(1), Some(DEFAULT_DEVICE_ID)>>, <<NULL, Some(OTHER_DEVICE)>> }

TrackDevices == {NULL, Some(OTHER_DEVICE)}
\* (start, end) of a track request
Windows == {<<NULL, NULL>>, <<Some(2), NULL>>, <<NULL, Some(1)>>}

\* track requests <<device, start, end, order, limit>>: the devices without
\* a window and the windows for the default device, in both orders and with
\* every limit; an empty device name; and each parameter value that does not
\* validate
TrackRequests ==
    { <<dw[1], dw[2][1], dw[2][2], o, l>> :
        dw \in { x \in TrackDevices \X Windows :
                    x[1] = NULL \/ x[2] = <<NULL, NULL>> },
        o \in {<<"asc">>, <<"desc">>}, l \in 1..MaxLimit }
    \cup { <<Some(""), NULL, NULL, <<"desc">>, 1>> }
    \cup { <<NULL, NULL, NULL, o, 1>> : o \in {<<"ASC">>, <<"Asc">>, <<"up">>} }
    \cup { <<NULL, NULL, NULL, <<"asc">>, l>> : l \in {0, LimitLe + 1} }

----------------------------------------------------------------------------
(* Spec: the endpoints *)

Threads == 1..NumThreads

NoRequest == Request("")
NoResponse == Response(0, "", NULL)

Init ==
    /\ readings = SeedRows
    /\ nextId = FirstId
    /\ now = 1
    /\ req = NoRequest
    /\ resp = NoResponse
    /\ sent = {}
    /\ pc = [t \in Threads |-> "idle"]
    /\ avail = max_size

Root == root /\ UNCHANGED poolVars

Health == health /\ UNCHANGED poolVars

IngestLite ==
    /\ \E h \in Headers, p \in LitePayloads : ingest_lite(h, p)
    /\ UNCHANGED poolVars

Ingest ==
    /\ \E h \in Headers, p \in Payloads : ingest(h, p)
    /\ UNCHANGED poolVars

Recent ==
    /\ \E q \in RecentRequests : recent(q[1], q[2])
    /\ UNCHANGED poolVars

ReadingsTrack ==
    /\ \E q \in TrackRequests : readings_track(q[1], q[2], q[3], q[4], q[5])
    /\ UNCHANGED poolVars

Next == Root \/ Health \/ IngestLite \/ Ingest \/ Recent \/ ReadingsTrack

Spec == Init /\ [][Next]_vars

----------------------------------------------------------------------------
(* SpecAuth: one request to an ingest endpoint, with any Authorization     *)
(* header of the atoms, served against the initial table                   *)

AuthRequests ==
    { [Request(ep) EXCEPT !.authorization = h, !.payload = Some(p)] :
        ep \in {"/ingest", "/ingest_lite"}, h \in AuthHeaders,
        p \in AuthPayloads }

AuthInit ==
    /\ readings = SeedRows
    /\ nextId = FirstId
    /\ now = 1
    /\ req \in AuthRequests
    /\ resp = NoResponse
    /\ sent = {}
    /\ pc = [t \in Threads |-> "idle"]
    /\ avail = max_size

AuthIngestLite ==
    /\ resp = NoResponse
    /\ req.endpoint = "/ingest_lite"
    /\ ingest_lite(req.authorization, Val(req.payload))
    /\ UNCHANGED poolVars

AuthIngest ==
    /\ resp = NoResponse
    /\ req.endpoint = "/ingest"
    /\ ingest(req.authorization, Val(req.payload))
    /\ UNCHANGED poolVars

AuthNext == AuthIngestLite \/ AuthIngest

SpecAuth == AuthInit /\ [][AuthNext]_vars

----------------------------------------------------------------------------
(* SpecPool: the threads that run the handlers call fetchone, fetchall or  *)
(* execute; each takes a connection of the pool for one statement          *)

\* pool.connection() hands out a connection: one fewer is available
getconn(a) == a - 1

\* a connection that is not given back when the block is left
putconn_leaking(a) == a

\* leaving "with pool.connection() as conn" returns it to the pool
putconn(a) == a + 1

\* a handler calls a db helper, which asks the pool for a connection
Call(t) ==
    /\ pc[t] = "idle"
    /\ pc' = [pc EXCEPT ![t] = "waiting"]
    /\ UNCHANGED <<avail, readings, nextId, now, req, resp, sent>>

\* pool.connection() returns once the pool has a connection to give
Acquire(t) ==
    /\ pc[t] = "waiting"
    /\ avail > 0
    /\ avail' = getconn(avail)
    /\ pc' = [pc EXCEPT ![t] = "holding"]
    /\ UNCHANGED <<readings, nextId, now, req, resp, sent>>

\* the statement has run and the with block is left
Release(t) ==
    /\ pc[t] = "holding"
    /\ avail' = putconn(avail)
    /\ pc' = [pc EXCEPT ![t] = "idle"]
    /\ UNCHANGED <<readings, nextId, now, req, resp, sent>>

PoolNext == \E t \in Threads : Call(t) \/ Acquire(t) \/ Release(t)

SpecPool == Init /\ [][PoolNext]_vars

----------------------------------------------------------------------------
(* What the claims speak of *)

IsIngest == req.endpoint \in {"/ingest", "/ingest_lite"}

\* the request carried the right bearer token
Authorized == req.authorization = Some(<<"Bearer", SP, SAFE_TOKEN>>)

\* the request body had lat and lon
PayloadOk == ~IsNull(Val(req.payload).lat) /\ ~IsNull(Val(req.payload).lon)

\* the last request was a track request and it was answered with a track
TrackAnswered == req.endpoint = "/readings/track" /\ resp.status = 200

TrackPoints == Val(resp.body).points
TrackSummary == Val(resp.body).summary

\* the timestamp of a point, in seconds: read_at, falling back to ts
TimeOf(p) ==
    IF IsNull(p.read_at) THEN Val(p.ts).secs ELSE Val(p.read_at).secs

----------------------------------------------------------------------------
(* C1 *)

\* C1: an ingest that carries the correct bearer token and a valid payload
\* is answered 200 with inserted_id the id of the row it inserted, a positive
\* integer; it does not end in an error after the row is committed.
C1_IngestReturnsInsertedId ==
    (IsIngest /\ Authorized /\ PayloadOk) =>
        /\ resp.status = 200
        /\ ~IsNull(resp.body)
        /\ Val(resp.body).inserted_id = nextId - 1
        /\ Val(resp.body).inserted_id > 0
        /\ \E r \in readings : r.id = Val(resp.body).inserted_id

----------------------------------------------------------------------------
(* C3 *)

\* C3: a track of 0 or 1 points has distance_m = 0 and duration_s = null;
\* duration_s is a number only when the track has at least 2 points.
C3_ShortTrackHasNoDuration ==
    TrackAnswered =>
        /\ Len(TrackPoints) <= 1 =>
              (TrackSummary.distance_m = 0 /\ IsNull(TrackSummary.duration_s))
        /\ ~IsNull(TrackSummary.duration_s) => Len(TrackPoints) >= 2

----------------------------------------------------------------------------
(* C4 *)

\* C4: with order=asc the points of a track come in non-decreasing order of
\* their timestamp (read_at, falling back to ts), with order=desc in
\* non-increasing order, also when rows with and without read_at are mixed.
C4_TrackOrderedByPointTime ==
    TrackAnswered =>
        \A i \in 1..(Len(TrackPoints) - 1) :
            IF req.order = Some(<<"asc">>)
            THEN TimeOf(TrackPoints[i]) <= TimeOf(TrackPoints[i + 1])
            ELSE TimeOf(TrackPoints[i]) >= TimeOf(TrackPoints[i + 1])

----------------------------------------------------------------------------
(* C8 *)

\* C8: the order parameter of a track request is matched without regard to
\* case and any value other than asc is treated as desc: ASC and Asc give
\* the ascending track, every other value the descending track, and none is
\* rejected.
C8_OrderMatchedWithoutCase ==
    ( /\ req.endpoint = "/readings/track"
      /\ Val(req.limit) >= 1
      /\ Val(req.limit) <= LimitLe ) =>
        LET dev == IF IsNull(req.device) \/ req.device = Some("")
                   THEN DEFAULT_DEVICE_ID ELSE Val(req.device)
            sql == IF req.order \in {Some(<<"asc">>), Some(<<"ASC">>),
                                     Some(<<"Asc">>)}
                   THEN "ASC" ELSE "DESC"
        IN /\ resp.status = 200
           /\ TrackPoints \in
                { [i \in 1..Len(rows) |-> Point(rows[i])] :
                  rows \in fetchall_track(dev, req.start, req.end, sql,
                                          Val(req.limit)) }

----------------------------------------------------------------------------
(* C10 *)

\* C10: a numeric duration_s is the time of the last returned point minus
\* the time of the first (time = read_at, falling back to ts), and a track
\* asked for with order=asc never has a negative duration_s.
C10_AscendingDurationNotNegative ==
    (TrackAnswered /\ ~IsNull(TrackSummary.duration_s)) =>
        /\ Val(TrackSummary.duration_s) =
              TimeOf(TrackPoints[Len(TrackPoints)]) - TimeOf(TrackPoints[1])
        /\ req.order = Some(<<"asc">>) => Val(TrackSummary.duration_s) >= 0

----------------------------------------------------------------------------
(* C5 *)

\* whether the pair of points i, i + 1 counts: all four coordinates present
PairCounts(points, i) ==
    \A c \in {points[i].lat, points[i].lon, points[i + 1].lat, points[i + 1].lon} :
        c # NULL

\* what the pair of points i, i + 1 adds to the distance, in millimetres
PairDistance(points, i) ==
    IF PairCounts(points, i)
    THEN haversine_m(Val(points[i].lat), Val(points[i].lon),
                     Val(points[i + 1].lat), Val(points[i + 1].lon))
    ELSE 0

RECURSIVE SumPairs(_, _)
\* the sum of PairDistance over the pairs whose first index is in I
SumPairs(points, I) ==
    IF I = {} THEN 0
    ELSE LET i == CHOOSE x \in I : TRUE
         IN PairDistance(points, i) + SumPairs(points, I \ {i})

\* C5: distance_m is the sum, over the consecutive pairs of the returned
\* points, of the distance of exactly the pairs in which both points have
\* lat and lon (rounded to 2 decimals); a pair with a null lat or lon adds 0
\* and changes no other pair's share: a null point is not bridged over.
C5_DistanceSumsCompletePairs ==
    TrackAnswered =>
        TrackSummary.distance_m =
            round2(SumPairs(TrackPoints, 1..(Len(TrackPoints) - 1)))

\* a track was answered in which a point without lon lies between two points
\* with lat and lon that are one degree apart, and its distance is 0
C5_NullPointBetweenCompletePoints ==
    /\ TrackAnswered
    /\ Len(TrackPoints) = 3
    /\ ~IsNull(TrackPoints[1].lon)
    /\ IsNull(TrackPoints[2].lon)
    /\ ~IsNull(TrackPoints[3].lon)
    /\ TrackPoints[1].lat # TrackPoints[3].lat
    /\ TrackSummary.distance_m = 0

----------------------------------------------------------------------------
(* C9 *)

ReadEndpoints == {"/", "/health", "/readings/recent", "/readings/track"}

\* C9: readings are created only by an authorized ingest and never updated
\* or deleted: /, /health, /readings/recent and /readings/track leave the
\* table unchanged; every authorized ingest (of a payload that validates)
\* adds exactly one row, with an id larger than all earlier ids, also when
\* the same payload was stored before.
C9_ReadingsOnlyAddedByIngest ==
    [][ /\ readings \subseteq readings'
        /\ req'.endpoint \in ReadEndpoints => readings' = readings
        /\ readings' # readings =>
              /\ req'.endpoint \in {"/ingest", "/ingest_lite"}
              /\ req'.authorization = Some(<<"Bearer", SP, SAFE_TOKEN>>)
        /\ ( /\ req'.endpoint \in {"/ingest", "/ingest_lite"}
             /\ req'.authorization = Some(<<"Bearer", SP, SAFE_TOKEN>>)
             /\ ~IsNull(Val(req'.payload).lat)
             /\ ~IsNull(Val(req'.payload).lon) ) =>
              \E r \in readings' :
                  /\ r \notin readings
                  /\ readings' = readings \cup {r}
                  /\ \A x \in readings : x.id < r.id
                  /\ r.lat = Val(req'.payload).lat
                  /\ r.lon = Val(req'.payload).lon
      ]_vars

\* the same payload was ingested twice and is stored in two rows
C9_SamePayloadStoredTwice ==
    /\ IsIngest
    /\ \E a \in readings, b \in readings :
          /\ a.id < b.id
          /\ ~IsNull(a.payload)
          /\ a.payload = b.payload

----------------------------------------------------------------------------
(* C6 *)

\* the last request was a recent request for the device ingest stores under
RecentAnswered ==
    /\ req.endpoint = "/readings/recent"
    /\ resp.status = 200
    /\ req.device \in {NULL, Some(DEFAULT_DEVICE_ID)}

RecentItems == Val(resp.body).items

\* what was stored through POST /ingest
SentToIngest == {s \in sent : s.endpoint = "/ingest"}

\* the items hold a row with the id and the lat, lon and alt that were sent
Returned(s) ==
    \E i \in 1..Len(RecentItems) :
        /\ RecentItems[i].id = s.id
        /\ RecentItems[i].lat = s.payload.lat
        /\ RecentItems[i].lon = s.payload.lon
        /\ RecentItems[i].alt_m = s.payload.alt

\* the readings of the device, other than row id, that are not older than it
NotOlder(id) ==
    LET r == CHOOSE x \in readings : x.id = id
    IN {x \in readings : /\ x.device_id = DEFAULT_DEVICE_ID
                         /\ x.id # id
                         /\ x.ts >= r.ts}

\* the limit of the last request: 50 when it gave none
AskedLimit == IF IsNull(req.limit) THEN 50 ELSE Val(req.limit)

\* C6 as stated: after a reading is ingested, a following /readings/recent
\* of the matching device returns, among its items, a row with the lat, lon
\* and alt that were submitted.
C6_RecentReturnsEveryIngested ==
    RecentAnswered => \A s \in SentToIngest : Returned(s)

\* C6, amended: ... provided the limit of the request exceeds the number of
\* other readings of that device whose ts is not earlier than the ts of the
\* ingested row.
C6_RecentReturnsIngestedWithinLimit ==
    RecentAnswered =>
        \A s \in SentToIngest :
            AskedLimit > Cardinality(NotOlder(s.id)) => Returned(s)

\* a recent request with limit 1 returned the newest of several readings
C6_NewestReturnedUnderLimitOne ==
    /\ RecentAnswered
    /\ req.limit = Some(1)
    /\ Cardinality(sent) >= 2
    /\ \E s \in SentToIngest : NotOlder(s.id) = {} /\ Returned(s)

----------------------------------------------------------------------------
(* C2 *)

\* where the words of a header begin: a non-blank atom at the start or
\* after a blank
WordStarts(h) == {i \in 1..Len(h) : h[i] # SP /\ (i = 1 \/ h[i - 1] = SP)}

\* the word of header h that begins at i
WordAt(h, i) ==
    LET last == CHOOSE j \in i..Len(h) :
                    /\ \A k \in i..j : h[k] # SP
                    /\ j = Len(h) \/ h[j + 1] = SP
    IN SubSeq(h, i, last)

Least(S) == CHOOSE i \in S : \A j \in S : i <= j
Greatest(S) == CHOOSE i \in S : \A j \in S : i >= j

\* exactly two whitespace-separated parts, the first of them "bearer" in
\* any case
WellFormed(h) ==
    /\ Cardinality(WordStarts(h)) = 2
    /\ WordAt(h, Least(WordStarts(h))) \in
          {<<"bearer">>, <<"Bearer">>, <<"BEARER">>}

\* the second part of a well-formed header
TokenOf(h) == WordAt(h, Greatest(WordStarts(h)))

\* the request was answered 401 with this detail, and no statement ran: the
\* table is the one the request found
RejectedWith(detail) ==
    /\ resp = [status |-> 401, detail |-> detail, body |-> NULL]
    /\ readings = SeedRows
    /\ nextId = FirstId
    /\ sent = {}

\* an ingest request has been answered
IngestAnswered == IsIngest /\ resp # NoResponse

\* C2 as stated: for every request to /ingest or /ingest_lite, a missing
\* Authorization header is rejected with 401 missing_token, a header that is
\* not exactly two whitespace-separated parts starting with "bearer" with
\* 401 invalid_auth_header, a well-formed header with another token than
\* the secret with 401 invalid_token; the table is unchanged in all three.
C2_EveryRequestRejectedByHeader ==
    IngestAnswered =>
        LET h == req.authorization
        IN /\ IsNull(h) => RejectedWith("missing_token")
           /\ (~IsNull(h) /\ ~WellFormed(Val(h))) =>
                 RejectedWith("invalid_auth_header")
           /\ (~IsNull(h) /\ WellFormed(Val(h)) /\ TokenOf(Val(h)) # <<SAFE_TOKEN>>) =>
                 RejectedWith("invalid_token")

\* C2, amended: for every request to /ingest or /ingest_lite whose payload
\* validates, a missing or empty Authorization header is rejected with 401
\* missing_token, a non-empty header that is not exactly two
\* whitespace-separated parts starting with "bearer" with 401
\* invalid_auth_header, a well-formed header with another token than the
\* secret with 401 invalid_token; the table is unchanged in all three.
C2_ValidRequestRejectedByHeader ==
    (IngestAnswered /\ PayloadOk) =>
        LET h == req.authorization
        IN /\ (IsNull(h) \/ h = Some(<<>>)) => RejectedWith("missing_token")
           /\ (~IsNull(h) /\ Val(h) # <<>> /\ ~WellFormed(Val(h))) =>
                 RejectedWith("invalid_auth_header")
           /\ (~IsNull(h) /\ WellFormed(Val(h)) /\ TokenOf(Val(h)) # <<SAFE_TOKEN>>) =>
                 RejectedWith("invalid_token")

\* a header "Bearer  wrong" (two blanks) was rejected as an invalid token
C2_WrongTokenRejected ==
    /\ IngestAnswered
    /\ PayloadOk
    /\ req.authorization = Some(<<"Bearer", SP, SP, "wrong">>)
    /\ RejectedWith("invalid_token")

----------------------------------------------------------------------------
(* C7 *)

\* the threads whose request is at the database: waiting for a connection
\* or holding one
InFlight == {t \in Threads : pc[t] # "idle"}

\* C7 as stated: for any number of requests in flight, a request that needs
\* the database can run its statement without waiting for another request
\* to release its connection.
C7_NoRequestWaitsForAnother ==
    \A t \in Threads : pc[t] = "waiting" => avail > 0

\* C7, amended: as long as at most max_size (5) requests are at the database
\* at the same time, a request that needs the database gets a connection
\* without waiting for another request to release one.
C7_NoWaitUpToPoolSize ==
    Cardinality(InFlight) <= max_size =>
        \A t \in Threads : pc[t] = "waiting" => avail > 0

\* max_size requests are at the database, one of them still to get its
\* connection, and the last connection is there for it
C7_LastConnectionFree ==
    /\ Cardinality(InFlight) = max_size
    /\ Cardinality({t \in Threads : pc[t] = "holding"}) = max_size - 1
    /\ avail = 1

====
